---- MODULE Spec2Model ----
(***************************************************************************)
(* Model of the MPG browser-console capture scripts:                       *)
(*   "full"   - unnamed/part_002 (extract_data.js, 15 s window)            *)
(*   "simple" - extract_data_simple.js (20 s window)                       *)
(*   "reload" - extract_with_reload.js (reload, then 30 s + 30 s)          *)
(*   "nohar"  - extract_no_har.js (stopCapture() / 10 minute auto-stop)    *)
(* A session is one execution of one of the scripts in the page.  The page *)
(* globals window.fetch, XMLHttpRequest.prototype.open/send hold function  *)
(* identities: 0 is the browser's native function, s > 0 is the wrapper    *)
(* closure created by session s.                                           *)
(***************************************************************************)
EXTENDS Integers, Sequences, FiniteSets, TLC

\* ---------------------------------------------------------------- bounds
MaxSessions == 2
MaxCalls == 2      \* fetch calls and XHR sends the page makes
MaxOps == 3        \* sessions started, calls made and stopCapture() typed
MaxXhr == 1        \* XMLHttpRequest objects of the page
MaxStops == 2      \* times the operator types stopCapture()
MaxNodes == 5      \* objects of the graph handed to safeSerialize

Sessions == 1..MaxSessions
Variants == {"full", "simple", "reload", "nohar"}
NATIVE == 0

\* ------------------------------------------------------------- JS values
\* A JavaScript value: type tag, a name for its content, and a number (the
\* value of a number, the length of a string).
Undefined == [t |-> "undefined", v |-> "", n |-> 0]
Null == [t |-> "null", v |-> "", n |-> 0]
Num(k) == [t |-> "number", v |-> "", n |-> k]
Str(name, len) == [t |-> "string", v |-> name, n |-> len]
Obj(name) == [t |-> "object", v |-> name, n |-> 0]

\* JavaScript truthiness (the test done by &&, || and the conditional).
Truthy(x) ==
    CASE x.t = "undefined" -> FALSE
      [] x.t = "null" -> FALSE
      [] x.t = "number" -> x.n # 0
      [] x.t = "string" -> x.n # 0
      [] OTHER -> TRUE

\* a || b
OrElse(a, b) == IF Truthy(a) THEN a ELSE b

Min(a, b) == IF a <= b THEN a ELSE b

Substring_Whole(s, k) == s

\* String.prototype.substring(0, k) of a string value.
Substring(s, k) == Str(s.v, Min(s.n, k))

\* ------------------------------------------------------------------ URLs
\* The text of the addresses the page requests, as character sequences.
UrlText(href) ==
    CASE href = "https://api.mpg.football/a" ->
           <<"h","t","t","p","s",":","/","/","a","p","i",".","m","p","g",".",
             "f","o","o","t","b","a","l","l","/","a">>
      [] href = "https://other.com/a" ->
           <<"h","t","t","p","s",":","/","/","o","t","h","e","r",".","c","o",
             "m","/","a">>
      [] OTHER -> <<>>

Hrefs == {"https://api.mpg.football/a", "https://other.com/a"}

\* Page addresses: the page the operator is on when the script is pasted,
\* and the trading page.
START_URL == "https://mpg.football/league"
TARGET_URL == "https://mpg.football/league/mpg_league_1XQHDZXWT/mpg_division_1XQHDZXWT_23_1/trading"

\* String.prototype.includes
Includes(s, needle) ==
    \E i \in 1..(Len(s) - Len(needle) + 1) :
        SubSeq(s, i, i + Len(needle) - 1) = needle

API_MPG == <<"a","p","i",".","m","p","g">>
MPG_FOOTBALL_API ==
    <<"m","p","g",".","f","o","o","t","b","a","l","l","/","a","p","i">>
MPG_FOOTBALL == <<"m","p","g",".","f","o","o","t","b","a","l","l">>
MPG == <<"m","p","g">>

\* The substring test each script applies to a string URL.  The full
\* script has no test: it records every call.
Matches(v, text) ==
    CASE v = "nohar" -> Includes(text, API_MPG) \/ Includes(text, MPG_FOOTBALL_API)
      [] v = "simple" -> Includes(text, API_MPG) \/ Includes(text, MPG_FOOTBALL)
      [] v = "reload" -> Includes(text, MPG)
      [] OTHER -> TRUE

\* The first argument of fetch / the url argument of open: a string, an
\* object (a URL; a Request behaves the same in every test the scripts
\* make), or nothing at all.
StringArgs == {[kind |-> "string", href |-> h] : h \in Hrefs}
ObjectArgs == {[kind |-> "URL", href |-> "https://api.mpg.football/a"]}
AbsentArg == [kind |-> "absent", href |-> ""]
FetchArgs == StringArgs \cup ObjectArgs \cup {AbsentArg}
OpenArgs == StringArgs \cup ObjectArgs

\* options.method of a fetch call: absent (the wrappers record 'GET'), or
\* an object the page uses as the method name (the native fetch converts it
\* with toString) and which holds a reference to itself.
GET == Str("GET", 3)
CyclicMethod == Obj("m = {toString: () => 'GET', self: m}")
\* The fetch calls the page makes: any first argument without a method, and
\* an in-scope address with the method object.
FetchInputs ==
    {[arg |-> a, method |-> Undefined] : a \in FetchArgs}
    \cup {[arg |-> [kind |-> "string", href |-> "https://api.mpg.football/a"],
           method |-> CyclicMethod]}

\* xhr.responseType as the page sets it before send().  Reading
\* xhr.responseText throws InvalidStateError unless it is '' or 'text'.
ResponseTextThrows(rt) == rt \notin {"", "text"}
\* The requests the page opens: any url with the default responseType, and
\* an in-scope address with responseType 'json'.
OpenInputs ==
    {[arg |-> a, responseType |-> ""] : a \in OpenArgs}
    \cup {[arg |-> [kind |-> "string", href |-> "https://api.mpg.football/a"],
           responseType |-> "json"]}

FilterEval_NoFlag(v, capturing, arg) ==
    IF v = "full" THEN "true"
    ELSE IF arg.kind = "absent" THEN "false"
    ELSE IF arg.kind # "string" THEN "throw"
    ELSE IF Matches(v, UrlText(arg.href)) THEN "true" ELSE "false"

\* `url && (url.includes(..) || url.includes(..))`: "true", "false", or
\* "throw" (url.includes is not a function on URL and Request objects).
\* capturing is the reload script's isCapturing, tested first.
FilterEval(v, capturing, arg) ==
    IF v = "full" THEN "true"
    ELSE IF v = "reload" /\ ~capturing THEN "false"
    ELSE IF arg.kind = "absent" THEN "false"
    ELSE IF arg.kind # "string" THEN "throw"
    ELSE IF Matches(v, UrlText(arg.href)) THEN "true" ELSE "false"

\* ---------------------------------------------------------------- bodies
\* Response bodies the server may send: text and its length.
BodyJson == Str("{\"id\":1}", 8)
BodyText == Str("<html>not found ... </html>, 600 characters", 600)
BodyZero == Str("0", 1)
Responses == {[status |-> 200, body |-> BodyJson],
              [status |-> 200, body |-> BodyZero],
              [status |-> 404, body |-> BodyText]}

\* JSON.parse: the parsed value, or a SyntaxError.
JSONParse(b) ==
    IF b = BodyJson THEN [ok |-> TRUE, val |-> Obj("{id:1}")]
    ELSE IF b = BodyZero THEN [ok |-> TRUE, val |-> Num(0)]
    ELSE [ok |-> FALSE, val |-> Undefined]

\* The character budget of a text preview.
PREVIEW_FULL == 200
PREVIEW_SIMPLE == 500
PREVIEW_NOHAR == 1000

\* ---------------------------------------------------------- object graph
\* The objects reachable from a window property the full script scans.  A
\* node is an object or an array with at most one property / element: the
\* key is plain, contains 'frame', or has a getter that throws; the value is
\* a string, a function, null or a reference to a node.
Nodes == 1..MaxNodes
Ref(n) == [k |-> "ref", n |-> n]
Prim(k) == [k |-> k, n |-> 0]
Plain(v) == [key |-> "plain", val |-> v]
\* The graphs, up to the naming of the nodes and to what the root does not
\* reach: node 1 holds node 2, and so on down to node len, which holds
\* nothing, a string, a number, a boolean, a function, null, a key that is
\* skipped, a getter that throws, or a reference back to one of the nodes
\* 1..len (a cycle).  Any of the nodes may be an array, and one of them may
\* have a second property / element after the first.
Finals(len) ==
    {<<>>, <<[key |-> "frame", val |-> Prim("string")]>>,
     <<[key |-> "denied", val |-> Prim("string")]>>}
    \cup {<<Plain(Prim(k))>> : k \in {"string", "number", "boolean", "function", "null"}}
    \cup {<<Plain(Ref(j))>> : j \in 1..len}
Seconds ==
    {Plain(Prim("string")), [key |-> "frame", val |-> Prim("string")],
     [key |-> "denied", val |-> Prim("string")]}
Sides(len) ==
    {[at |-> 0, slot |-> Plain(Prim("string"))]}
    \cup {[at |-> n, slot |-> sl] : n \in 1..len, sl \in Seconds}
HeapOf(len, arrays, fin, side) ==
    [n \in Nodes |->
        [array |-> n \in arrays,
         slots |-> (IF n < len THEN <<Plain(Ref(n + 1))>>
                    ELSE IF n = len THEN fin ELSE <<>>)
                   \o (IF n = side.at THEN <<side.slot>> ELSE <<>>)]]

\* What safeSerialize returns: a string, null, or a new object / array.
Out(k, v, kids) == [k |-> k, v |-> v, kids |-> kids]
Text(v) == Out("string", v, <<>>)
NotRun == Out("none", "", <<>>)
\* In the sequence that stands for the keys of a result object: the key the
\* loop skipped, which the result does not have.
Absent == Out("absent", "", <<>>)
MAX_DEPTH_REACHED == "[Max Depth Reached]"
MAX_DEPTH == 3

\* ----------------------------------------------------------------- state
VARIABLES
    winFetch,          \* window.fetch
    xhrOpen,           \* XMLHttpRequest.prototype.open
    xhrSend,           \* XMLHttpRequest.prototype.send
    winStopCapture,    \* window.stopCapture (0: not defined)
    variant,           \* the script each session runs ("none": not started)
    phase,             \* "idle", "capturing", "stopped", "dead" (page unloaded)
    originalFetch,     \* per session: const originalFetch
    originalXHROpen,   \* per session: const originalXHROpen
    originalXHRSend,   \* per session: const originalXHRSend
    isCapturing,       \* per session (reload script): let isCapturing
    capturedRequests,  \* per session: the buffer, a sequence of object ids
    requestCounter,    \* per session (nohar script): let requestCounter
    timerArmed,        \* per session (nohar script): the 10 minute timeout is pending
    objs,              \* the heap of requestInfo / requestData objects
    calls,             \* the fetch calls the page has made
    xhrs,              \* the page's XMLHttpRequest objects
    sends,             \* the XHR send() calls the page has made
    downloads,         \* the JSON documents handed to the browser as downloads
    returned,          \* the artifact objects returned to the invoker
    exportErrors,      \* per session: what the export code threw, in order
    stopCalls,         \* how many times the operator typed stopCapture()
    location,          \* window.location.href
    dataUrl,           \* per session (full script): data.url
    heap,              \* the object graph a window property of the page holds
    result             \* what safeSerialize returned for it

globals == <<winFetch, xhrOpen, xhrSend, winStopCapture>>
closures == <<variant, originalFetch, originalXHROpen, originalXHRSend>>
capture == <<isCapturing, capturedRequests, requestCounter, objs>>
traffic == <<calls, xhrs, sends>>
outputs == <<downloads, returned, exportErrors>>
ambient == <<heap, result>>
page == <<location, dataUrl>>
vars == <<globals, closures, capture, traffic, outputs, phase, timerArmed, stopCalls,
          page, ambient>>

\* ---------------------------------------------------------- safeSerialize
PastBound_Late(currentDepth, maxDepth) == currentDepth > maxDepth + 1
PastBound_Early(currentDepth, maxDepth) == currentDepth >= maxDepth

\* if (currentDepth > maxDepth) return '[Max Depth Reached]';
PastBound(currentDepth, maxDepth) == currentDepth > maxDepth

RECURSIVE safeSerialize(_, _, _)
\* for (const key in obj): a key that contains 'frame' is skipped, a getter
\* that throws gives '[Access Denied]', any other value is serialized one
\* level deeper.
RECURSIVE SerializeKeys(_, _, _)
SerializeKeys_Abort(slots, maxDepth, currentDepth) ==
    IF \E i \in DOMAIN slots : slots[i].key = "denied" THEN <<>>
    ELSE [i \in DOMAIN slots |->
            IF slots[i].key = "frame" THEN Absent
            ELSE safeSerialize(slots[i].val, maxDepth, currentDepth + 1)]

SerializeKeys(slots, maxDepth, currentDepth) ==
    IF slots = <<>> THEN <<>>
    ELSE LET sl == Head(slots)
             rest == SerializeKeys(Tail(slots), maxDepth, currentDepth)
         IN CASE sl.key = "frame" -> <<Absent>> \o rest
              [] sl.key = "denied" -> <<Text("[Access Denied]")>> \o rest
              [] OTHER -> <<safeSerialize(sl.val, maxDepth, currentDepth + 1)>> \o rest

SerializeItems_Reversed(slots, maxDepth, currentDepth) ==
    [i \in DOMAIN slots |->
        safeSerialize(slots[Len(slots) + 1 - i].val, maxDepth, currentDepth + 1)]

\* obj.map(item => safeSerialize(item, maxDepth, currentDepth + 1))
RECURSIVE SerializeItems(_, _, _)
SerializeItems(slots, maxDepth, currentDepth) ==
    IF slots = <<>> THEN <<>>
    ELSE <<safeSerialize(Head(slots).val, maxDepth, currentDepth + 1)>>
         \o SerializeItems(Tail(slots), maxDepth, currentDepth)

safeSerialize(obj, maxDepth, currentDepth) ==
    IF PastBound(currentDepth, maxDepth) THEN Text(MAX_DEPTH_REACHED)
    ELSE CASE obj.k = "null" -> Out("null", "", <<>>)
           [] obj.k = "string" -> Text("a string")
           [] obj.k = "number" -> Out("number", "1", <<>>)
           [] obj.k = "boolean" -> Out("boolean", "true", <<>>)
           [] obj.k = "function" -> Text("[Function]")
           [] obj.k = "ref" /\ heap[obj.n].array ->
                 IF \E i \in DOMAIN heap[obj.n].slots : heap[obj.n].slots[i].key = "denied"
                 THEN Text("[Array - Access Denied]")
                 ELSE Out("array", "",
                          SerializeItems(heap[obj.n].slots, maxDepth, currentDepth))
           [] obj.k = "ref" /\ ~heap[obj.n].array ->
                 Out("object", "",
                     SerializeKeys(heap[obj.n].slots, maxDepth, currentDepth))
           [] OTHER -> Text("[Unknown Type]")

\* What the operator and the page have done so far.
Ops ==
    Cardinality({s \in Sessions : phase[s] # "idle"}) + Len(calls) + Len(sends)
    + stopCalls + (IF location = START_URL THEN 0 ELSE 1)
MayCall == Ops < MaxOps /\ Len(calls) + Len(sends) < MaxCalls

\* The wrappers a call through entry point f runs, outermost first: wrapper
\* f, then the function session f saved as its original, and so on down to
\* the native function.
RECURSIVE Chain(_, _)
Chain(f, orig) ==
    IF f = NATIVE THEN <<>> ELSE <<f>> \o Chain(orig[f], orig)

\* The expando property in which each script's open wrapper keeps the url
\* on the XMLHttpRequest object.
Props == {"_url", "_mpg_url", "_captureUrl"}
PropOf(v) ==
    CASE v = "full" -> "_url"
      [] v = "nohar" -> "_captureUrl"
      [] OTHER -> "_mpg_url"

\* new Date(): the time, counted in the answers the network has given so
\* far (fetch calls settled, XHR requests that fired load or error).
Now ==
    Cardinality({c \in DOMAIN calls : calls[c].native \in {"ok", "fail"}})
    + Cardinality({k \in DOMAIN sends : sends[k].native \in {"load", "error"}})

\* A fresh requestInfo / requestData object.  Fields the script has not
\* assigned are Undefined.
NewRecord(s, arg, method, type, id, status) ==
    [sess |-> s, url |-> arg, method |-> method, type |-> type, id |-> id,
     timestamp |-> Now,
     status |-> status,
     response |-> Undefined, text |-> Undefined, error |-> Undefined,
     response_type |-> Undefined]

InitPage ==
    /\ winFetch = NATIVE
    /\ xhrOpen = NATIVE
    /\ xhrSend = NATIVE
    /\ winStopCapture = 0
    /\ variant = [s \in Sessions |-> "none"]
    /\ phase = [s \in Sessions |-> "idle"]
    /\ originalFetch = [s \in Sessions |-> NATIVE]
    /\ originalXHROpen = [s \in Sessions |-> NATIVE]
    /\ originalXHRSend = [s \in Sessions |-> NATIVE]
    /\ isCapturing = [s \in Sessions |-> FALSE]
    /\ capturedRequests = [s \in Sessions |-> <<>>]
    /\ requestCounter = [s \in Sessions |-> 0]
    /\ timerArmed = [s \in Sessions |-> FALSE]
    /\ objs = <<>>
    /\ calls = <<>>
    /\ xhrs = [x \in 1..MaxXhr |->
                 [state |-> "unsent", url |-> AbsentArg, responseType |-> "",
                  prop |-> [p \in Props |-> AbsentArg], listeners |-> <<>>]]
    /\ sends = <<>>
    /\ downloads = <<>>
    /\ returned = <<>>
    /\ exportErrors = [s \in Sessions |-> <<>>]
    /\ stopCalls = 0
    /\ location = START_URL
    /\ dataUrl = [s \in Sessions |-> ""]

\* The capture model leaves the page's object graph out: the scan of the
\* window properties is followed in SpecSerialize.
Init ==
    /\ InitPage
    /\ heap = [n \in Nodes |-> [array |-> FALSE, slots |-> <<>>]]
    /\ result = NotRun

\* The operator clicks through to the trading page: the single-page
\* application changes the address without unloading the document.
Navigate ==
    /\ UNCHANGED <<dataUrl, ambient>>
    /\ Ops < MaxOps
    /\ location = START_URL
    /\ location' = TARGET_URL
    /\ UNCHANGED <<globals, closures, capture, traffic, outputs, phase, timerArmed,
                   stopCalls>>

\* The operator pastes script v into the console: the script saves the
\* current entry points, installs its wrappers and starts its timer.
StartSession(s, v) ==
    /\ UNCHANGED <<location, ambient>>
    /\ dataUrl' = [dataUrl EXCEPT ![s] = IF v = "full" THEN location ELSE @]
    /\ phase[s] = "idle"
    /\ Ops < MaxOps
    /\ \A t \in Sessions : t < s => phase[t] # "idle"
    /\ variant' = [variant EXCEPT ![s] = v]
    /\ phase' = [phase EXCEPT ![s] = "capturing"]
    /\ originalFetch' = [originalFetch EXCEPT ![s] = winFetch]
    /\ originalXHROpen' = [originalXHROpen EXCEPT ![s] = xhrOpen]
    /\ originalXHRSend' = [originalXHRSend EXCEPT ![s] = xhrSend]
    /\ winFetch' = s
    /\ xhrOpen' = s
    /\ xhrSend' = s
    /\ isCapturing' = [isCapturing EXCEPT ![s] = (v = "reload")]
    /\ winStopCapture' = IF v = "nohar" THEN s ELSE winStopCapture
    /\ timerArmed' = [timerArmed EXCEPT ![s] = (v = "nohar")]
    /\ UNCHANGED <<capturedRequests, requestCounter, objs, traffic, outputs, stopCalls>>

\* ----------------------------------------------------------------- fetch
\* error.message of what a rejected fetch carries.
ErrorMessage(flow) ==
    IF flow = "neterr" THEN Str("Failed to fetch", 15)
    ELSE Str("url.includes is not a function", 30)

\* Body.json() and Body.text() of a Response whose body has (used) or has
\* not been read yet: both read the body to its end, json() then parses it.
ReadJson(body, used) ==
    IF used THEN [ok |-> FALSE, val |-> Undefined, used |-> TRUE]
    ELSE [ok |-> JSONParse(body).ok, val |-> JSONParse(body).val, used |-> TRUE]
ReadText(body, used) ==
    IF used THEN [ok |-> FALSE, val |-> Undefined, used |-> TRUE]
    ELSE [ok |-> TRUE, val |-> body, used |-> TRUE]

\* The synchronous part of window.fetch(arg): every wrapper of the chain
\* runs up to its first await.  The nohar wrapper tests the url before it
\* calls its original, so a throwing test ends the chain there; the full
\* wrapper builds its requestInfo first; the simple and reload wrappers
\* call their original at once.
SyncFilter(chain, arg, i) ==
    FilterEval(variant[chain[i]], isCapturing[chain[i]], arg)
ThrowIdx(chain, arg) ==
    LET bad == {i \in 1..Len(chain) :
                   variant[chain[i]] = "nohar" /\ SyncFilter(chain, arg, i) = "throw"}
    IN IF bad = {} THEN 0 ELSE CHOOSE i \in bad : \A j \in bad : i <= j
SyncCreates(chain, arg, i) ==
    \/ variant[chain[i]] = "full"
    \/ variant[chain[i]] = "nohar" /\ SyncFilter(chain, arg, i) = "true"

NextId_Fixed(counter) == 1

\* requestCounter++; const reqId = requestCounter;
NextId(counter) == counter + 1

FetchIssue(arg, m) ==
    /\ UNCHANGED <<page, ambient>>
    /\ MayCall
    /\ winFetch # NATIVE
    /\ LET chain == Chain(winFetch, originalFetch)
           thr == ThrowIdx(chain, arg)
           last == IF thr = 0 THEN Len(chain) ELSE thr
           made == {i \in 1..last : SyncCreates(chain, arg, i)}
           idOf(i) == Len(objs) + Cardinality({j \in made : j <= i})
           frameOf(k) == CHOOSE i \in made : idOf(i) = Len(objs) + k
           counterOf(i) == NextId(requestCounter[chain[i]])
       IN /\ objs' = objs \o
                [k \in 1..Cardinality(made) |->
                    LET i == frameOf(k) IN
                    NewRecord(chain[i], arg, OrElse(m, GET), "fetch",
                              IF variant[chain[i]] = "nohar" THEN counterOf(i) ELSE 0,
                              Undefined)]
          /\ requestCounter' =
                [s \in Sessions |->
                    IF \E i \in made : chain[i] = s /\ variant[s] = "nohar"
                    THEN NextId(requestCounter[s]) ELSE requestCounter[s]]
          /\ calls' = Append(calls,
                [arg |-> arg,
                 method |-> m,
                 issuedAt |-> Now,
                 bodyUsed |-> FALSE,
                 chain |-> SubSeq(chain, 1, last),
                 recs |-> [i \in 1..last |-> IF i \in made THEN idOf(i) ELSE 0],
                 cur |-> IF thr = 0 THEN last ELSE last - 1,
                 stage |-> "orig",
                 flow |-> IF thr = 0 THEN "pending" ELSE "typeerr",
                 native |-> IF thr = 0 THEN "pending" ELSE "notcalled",
                 resp |-> [status |-> 0, body |-> Str("", 0)],
                 live |-> {s \in Sessions : phase[s] = "capturing"}])
    /\ UNCHANGED <<globals, closures, isCapturing, capturedRequests, xhrs, sends,
                   outputs, phase, timerArmed, stopCalls>>

\* The network settles the native fetch: a response, or a rejection.
FetchSettle(c, ok, r) ==
    /\ UNCHANGED <<page, ambient>>
    /\ c \in 1..Len(calls)
    /\ calls[c].native = "pending"
    /\ calls' = [calls EXCEPT ![c].native = IF ok THEN "ok" ELSE "fail",
                              ![c].flow = IF ok THEN "ok" ELSE "neterr",
                              ![c].resp = IF ok THEN r ELSE @]
    /\ UNCHANGED <<globals, closures, capture, xhrs, sends, outputs, phase,
                   timerArmed, stopCalls>>

Push_Lost(s, id) == capturedRequests
Push_Front(s, id) == [capturedRequests EXCEPT ![s] = <<id>> \o @]

\* capturedRequests.push(requestInfo)
Push(s, id) == [capturedRequests EXCEPT ![s] = Append(@, id)]

RecordOf_Latest(call, i) == IF call.recs[i] = 0 THEN 0 ELSE Len(objs)

\* The requestInfo / requestData the i-th wrapper of the call holds in its
\* closure (0: it has made none).
RecordOf(call, i) == call.recs[i]

\* The innermost wrapper still waiting resumes after `await original(..)`.
FrameAfterOriginal(c) ==
    /\ UNCHANGED <<page, ambient>>
    /\ c \in 1..Len(calls)
    /\ calls[c].cur > 0
    /\ calls[c].stage = "orig"
    /\ calls[c].flow # "pending"
    /\ LET call == calls[c]
           i == call.cur
           s == call.chain[i]
           v == variant[s]
           rec == RecordOf(call, i)
           fe == FilterEval(v, isCapturing[s], call.arg)
       IN IF rec # 0 THEN
             \* full, and nohar in scope: inside try { await original }
             IF call.flow = "ok"
             THEN /\ objs' = [objs EXCEPT ![rec].status = Num(call.resp.status)]
                  /\ calls' = [calls EXCEPT ![c].stage = "body"]
                  /\ UNCHANGED capturedRequests
             ELSE /\ objs' = [objs EXCEPT ![rec].error = ErrorMessage(call.flow)]
                  /\ capturedRequests' = Push(s, rec)
                  /\ calls' = [calls EXCEPT ![c].cur = i - 1]
          ELSE IF v = "nohar" \/ call.flow # "ok" THEN
             \* nohar out of scope returns the original's promise; simple and
             \* reload have no try around the await
             /\ calls' = [calls EXCEPT ![c].cur = i - 1]
             /\ UNCHANGED <<objs, capturedRequests>>
          ELSE IF fe = "throw" THEN
             /\ calls' = [calls EXCEPT ![c].cur = i - 1, ![c].flow = "typeerr"]
             /\ UNCHANGED <<objs, capturedRequests>>
          ELSE IF fe = "false" THEN
             /\ calls' = [calls EXCEPT ![c].cur = i - 1]
             /\ UNCHANGED <<objs, capturedRequests>>
          ELSE
             /\ objs' = Append(objs,
                    NewRecord(s, call.arg, OrElse(call.method, GET), "fetch", 0,
                              Num(call.resp.status)))
             /\ calls' = [calls EXCEPT ![c].stage = "body",
                                       ![c].recs[i] = Len(objs) + 1]
             /\ UNCHANGED capturedRequests
    /\ UNCHANGED <<globals, closures, isCapturing, requestCounter, xhrs, sends,
                   outputs, phase, timerArmed, stopCalls>>

ReadsFrom_Response(v) == IF v = "reload" THEN "response" ELSE "clone"

\* The object whose body the wrapper of script v reads: every script reads
\* `clone`, the result of response.clone(), never `response` itself.
ReadsFrom(v) == "clone"

\* What the wrapper of script v stores once the clone's body has been read.
WithBody(v, rec, body) ==
    LET j == ReadJson(body, FALSE)
        sameClone == ReadText(body, j.used)
        newClone == ReadText(body, FALSE)
    IN CASE j.ok -> [rec EXCEPT !.response = j.val]
         [] v = "simple" /\ newClone.ok ->
               [rec EXCEPT !.text = Substring(newClone.val, PREVIEW_SIMPLE)]
         [] v = "nohar" /\ sameClone.ok ->
               [rec EXCEPT !.text = Substring(sameClone.val, PREVIEW_NOHAR)]
         [] v = "full" /\ sameClone.ok ->
               [rec EXCEPT !.text = Substring(sameClone.val, PREVIEW_FULL),
                           !.response_type = Str("text", 4)]
         [] v = "full" /\ ~sameClone.ok ->
               [rec EXCEPT !.response_type = Str("non-serializable", 16)]
         [] OTHER -> rec

\* The wrapper resumes after `await clone.json()` (and the text fallback),
\* pushes its record and returns the response.
FrameAfterBody(c) ==
    /\ UNCHANGED <<page, ambient>>
    /\ c \in 1..Len(calls)
    /\ calls[c].cur > 0
    /\ calls[c].stage = "body"
    /\ LET call == calls[c]
           i == call.cur
           s == call.chain[i]
           rec == RecordOf(call, i)
       IN /\ objs' = [objs EXCEPT ![rec] = WithBody(variant[s], @, call.resp.body)]
          /\ capturedRequests' = Push(s, rec)
          /\ calls' = [calls EXCEPT
                ![c].cur = i - 1,
                ![c].stage = "orig",
                ![c].bodyUsed = @ \/ ReadsFrom(variant[s]) = "response"]
    /\ UNCHANGED <<globals, closures, isCapturing, requestCounter, xhrs, sends,
                   outputs, phase, timerArmed, stopCalls>>

\* ------------------------------------------------------------------- XHR
\* xhr.open(method, url): every open wrapper of the chain stores the url on
\* the object, then the native open (re)initialises the request.
XhrOpen(x, arg, rt) ==
    /\ UNCHANGED <<page, ambient>>
    /\ MayCall
    /\ xhrOpen # NATIVE
    /\ xhrs[x].state # "sent"
    /\ LET chain == Chain(xhrOpen, originalXHROpen)
           set == {PropOf(variant[chain[i]]) : i \in 1..Len(chain)}
       IN xhrs' = [xhrs EXCEPT ![x].state = "opened",
                               ![x].url = arg,
                               ![x].responseType = rt,
                               ![x].prop = [p \in Props |-> IF p \in set THEN arg ELSE @[p]]]
    /\ UNCHANGED <<globals, closures, capture, calls, sends, outputs, phase,
                   timerArmed, stopCalls>>

\* The listeners the send wrapper of script v registers for its record.
ListenersOf(v, rec) ==
    IF v \in {"full", "nohar"}
    THEN <<[rec |-> rec, ev |-> "load"], [rec |-> rec, ev |-> "error"]>>
    ELSE <<[rec |-> rec, ev |-> "load"]>>

RECURSIVE Flatten(_)
Flatten(ss) == IF ss = <<>> THEN <<>> ELSE Head(ss) \o Flatten(Tail(ss))

\* xhr.send(): every send wrapper of the chain tests the stored url, builds
\* its record and registers its listeners, then calls its original.  A test
\* that throws ends the chain: the native send is never reached.
XhrSend(x) ==
    /\ UNCHANGED <<page, ambient>>
    /\ MayCall
    /\ xhrSend # NATIVE
    /\ xhrs[x].state = "opened"
    /\ LET chain == Chain(xhrSend, originalXHRSend)
           urlOf(i) == xhrs[x].prop[PropOf(variant[chain[i]])]
           fe(i) == FilterEval(variant[chain[i]], isCapturing[chain[i]], urlOf(i))
           bad == {i \in 1..Len(chain) : fe(i) = "throw"}
           thr == IF bad = {} THEN 0 ELSE CHOOSE i \in bad : \A j \in bad : i <= j
           last == IF thr = 0 THEN Len(chain) ELSE thr
           made == {i \in 1..last : fe(i) = "true"}
           idOf(i) == Len(objs) + Cardinality({j \in made : j <= i})
           frameOf(k) == CHOOSE i \in made : idOf(i) = Len(objs) + k
           isNohar(i) == variant[chain[i]] = "nohar"
       IN /\ objs' = objs \o
                [k \in 1..Cardinality(made) |->
                    LET i == frameOf(k) IN
                    NewRecord(chain[i], urlOf(i), GET, "xhr",
                              IF isNohar(i) THEN NextId(requestCounter[chain[i]]) ELSE 0,
                              Undefined)]
          /\ requestCounter' =
                [s \in Sessions |->
                    IF \E i \in made : chain[i] = s /\ isNohar(i)
                    THEN NextId(requestCounter[s]) ELSE requestCounter[s]]
          /\ xhrs' = [xhrs EXCEPT
                ![x].state = IF thr = 0 THEN "sent" ELSE @,
                ![x].listeners = @ \o Flatten(
                    [k \in 1..Cardinality(made) |->
                        ListenersOf(variant[chain[frameOf(k)]], idOf(frameOf(k)))])]
          /\ sends' = Append(sends,
                [x |-> x,
                 url |-> xhrs[x].url,
                 issuedAt |-> Now,
                 chain |-> SubSeq(chain, 1, last),
                 recs |-> [i \in 1..last |-> IF i \in made THEN idOf(i) ELSE 0],
                 native |-> IF thr = 0 THEN "pending" ELSE "notcalled",
                 raised |-> 0,
                 live |-> {s \in Sessions : phase[s] = "capturing"}])
    /\ UNCHANGED <<globals, closures, isCapturing, capturedRequests, calls,
                   outputs, phase, timerArmed, stopCalls>>

\* What one listener does to its record when the event ev arrives.  rt is
\* xhr.responseType: when reading xhr.responseText throws, the full, simple
\* and reload listeners catch the throw of the read inside JSON.parse(..)
\* and read it again in the catch block; the nohar listener reads it before
\* its try.  The listener ends there, before its push.
OnEvent(v, rec, ev, r, rt) ==
    IF ev = "load" THEN
        LET p == JSONParse(r.body)
            seen == [rec EXCEPT !.status = Num(r.status)]
        IN CASE ResponseTextThrows(rt) /\ v = "full" ->
                   [seen EXCEPT !.response_type = Str("non-json", 8)]
             [] ResponseTextThrows(rt) /\ v # "full" -> seen
             [] p.ok -> [seen EXCEPT !.response = p.val]
             [] v = "full" ->
                   [seen EXCEPT !.response_type = Str("non-json", 8),
                                !.text = Substring(r.body, PREVIEW_FULL)]
             [] v = "nohar" -> [seen EXCEPT !.text = Substring(r.body, PREVIEW_NOHAR)]
             [] OTHER -> [seen EXCEPT !.text = Substring(r.body, PREVIEW_SIMPLE)]
    ELSE IF v = "nohar"
         THEN [rec EXCEPT !.status = Num(0), !.error = Str("Network Error", 13)]
         ELSE [rec EXCEPT !.error = Str("XHR Error", 9)]

\* The listener for ev ends by an exception instead of its push.
ListenerRaises(ev, rt) == ev = "load" /\ ResponseTextThrows(rt)

\* The listeners registered for ev run in registration order; each updates
\* its record and pushes it onto its session's buffer.  An exception in one
\* listener is reported by the browser and does not stop the next one.
RECURSIVE Fire(_, _, _, _, _, _, _)
Fire(ls, ev, r, rt, heap0, bufs, raised) ==
    IF ls = <<>> THEN [heap |-> heap0, bufs |-> bufs, raised |-> raised]
    ELSE LET l == Head(ls)
             s == heap0[l.rec].sess
         IN IF l.ev # ev THEN Fire(Tail(ls), ev, r, rt, heap0, bufs, raised)
            ELSE Fire(Tail(ls), ev, r, rt,
                      [heap0 EXCEPT ![l.rec] = OnEvent(variant[s], @, ev, r, rt)],
                      IF ListenerRaises(ev, rt) THEN bufs
                      ELSE [bufs EXCEPT ![s] = Append(@, l.rec)],
                      IF ListenerRaises(ev, rt) THEN raised + 1 ELSE raised)

\* The request of xhr x completes: the browser fires load (with a response)
\* or error on the object.
XhrComplete(x, ev, r) ==
    /\ UNCHANGED <<page, ambient>>
    /\ xhrs[x].state = "sent"
    /\ LET out == Fire(xhrs[x].listeners, ev, r, xhrs[x].responseType, objs,
                       capturedRequests, 0)
           k == CHOOSE j \in 1..Len(sends) :
                    sends[j].x = x /\ sends[j].native = "pending"
       IN /\ objs' = out.heap
          /\ capturedRequests' = out.bufs
          /\ sends' = [sends EXCEPT ![k].native = ev, ![k].raised = out.raised]
    /\ xhrs' = [xhrs EXCEPT ![x].state = "done"]
    /\ UNCHANGED <<globals, closures, isCapturing, requestCounter, calls,
                   outputs, phase, timerArmed, stopCalls>>

\* ---------------------------------------------------------------- export
\* The entries JSON.stringify writes for an array of records: the fields of
\* each object as they are now (an Undefined field is left out of the text).
Snapshot(buf) == [i \in 1..Len(buf) |-> objs[buf[i]]]

\* JSON.stringify(data, jsonReplacer, 2) of the full script: an object the
\* replacer has already seen is written as the string '[Circular Reference]'.
CIRCULAR == Str("[Circular Reference]", 20)
\* The method object as the replacer leaves it: its function becomes
\* '[Function]' and its reference to itself '[Circular Reference]'.
CutMethod == Obj("{toString: '[Function]', self: '[Circular Reference]'}")
\* A url that is undefined is written as the string '[Undefined]'.
UNDEFINED_TEXT == [kind |-> "string", href |-> "[Undefined]"]
Replaced(o) ==
    [o EXCEPT !.method = IF @ = CyclicMethod THEN CutMethod ELSE @,
              !.url = IF @.kind = "absent" THEN UNDEFINED_TEXT ELSE @]
ReplacedSnapshot_CyclesOnly(buf) == [i \in 1..Len(buf) |-> Replaced(objs[buf[i]])]

\* The replacer keeps every object it has met in `seen`: a record met again
\* in the array, and the page's object m met again as the method of a
\* later record, are written as '[Circular Reference]'.
ReplacedSnapshot(buf) ==
    [i \in 1..Len(buf) |->
        IF \E j \in 1..(i - 1) : buf[j] = buf[i] THEN CIRCULAR
        ELSE IF /\ objs[buf[i]].method = CyclicMethod
                /\ \E j \in 1..(i - 1) : objs[buf[j]].method = CyclicMethod
        THEN [Replaced(objs[buf[i]]) EXCEPT !.method = CIRCULAR]
        ELSE Replaced(objs[buf[i]])]

\* JSON.stringify(data, null, 2), without a replacer, throws TypeError
\* ("Converting circular structure to JSON") when a record of the buffer
\* holds an object that refers to itself.
HasCycle(buf) == \E i \in 1..Len(buf) : objs[buf[i]].method = CyclicMethod

\* capturedData.requests.map(req => ({...})) of stopCapture: a new array of
\* new objects holding url, method, status, timestamp, duration_ms and
\* response: req.response || req.responseText || null.
Project(o) ==
    [sess |-> o.sess, url |-> o.url, method |-> o.method, type |-> "", id |-> 0,
     timestamp |-> o.timestamp,
     status |-> o.status,
     response |-> OrElse(o.response, OrElse(o.text, Null)),
     text |-> Undefined, error |-> Undefined, response_type |-> Undefined]
Projection(buf) == [i \in 1..Len(buf) |-> Project(objs[buf[i]])]

FALLBACK_FIELDS_All == {"scrape_timestamp", "url", "extracted_data", "api_calls", "note"}
SIMPLE_FIELDS == {"scrape_timestamp", "url", "api_calls", "total_captured"}
FULL_FIELDS == {"scrape_timestamp", "url", "extracted_data", "api_calls"}
FALLBACK_FIELDS == {"scrape_timestamp", "url", "api_calls", "note"}

\* A JSON document given to the browser as a download.
Document(s, kind, fields, entries) ==
    [sess |-> s, kind |-> kind, fields |-> fields,
     url |-> IF variant[s] = "full" THEN dataUrl[s] ELSE location,
     total_captured |-> IF "total_captured" \in fields THEN Len(capturedRequests[s]) ELSE -1,
     api_calls |-> entries]

\* The object the script returns.  ref: its api_calls is the capturedRequests
\* array itself, not a copy; atReturn: the entries it held when returned.
Artifact(s, fields, ref, entries) ==
    [sess |-> s, fields |-> fields, ref |-> ref,
     url |-> IF variant[s] = "full" THEN dataUrl[s] ELSE location,
     total_captured |-> IF "total_captured" \in fields THEN Len(capturedRequests[s]) ELSE -1,
     atReturn |-> entries]

\* The api_calls an artifact object holds now.
ApiCalls(a) == IF a.ref THEN Snapshot(capturedRequests[a.sess]) ELSE a.atReturn

Restore_Skipped(s) == UNCHANGED <<winFetch, xhrOpen, xhrSend>>

\* window.fetch = originalFetch; XMLHttpRequest.prototype.open = ...
Restore(s) ==
    /\ winFetch' = originalFetch[s]
    /\ xhrOpen' = originalXHROpen[s]
    /\ xhrSend' = originalXHRSend[s]

\* What the export code of a script throws, in order.
Threw(s, errs) == [exportErrors EXCEPT ![s] = @ \o errs]

\* The timer of a simple, reload or full script elapses: the rest of the
\* script runs to its end.  fail: creating the download throws; fail2: the
\* full script's fallback download throws as well.
\*  simple: try { stringify; download } catch { console.log(stringify) };
\*          return data.  A stringify that throws throws again in the catch.
\*  reload: stringify; download; return data, with no try.
\*  full:   try { stringify with jsonReplacer; download }
\*          catch { stringify fallbackData without replacer; download };
\*          return data.
StopTimer(s, fail, fail2) ==
    /\ UNCHANGED <<page, ambient>>
    /\ phase[s] = "capturing"
    /\ variant[s] \in {"simple", "reload", "full"}
    /\ phase' = [phase EXCEPT ![s] = "stopped"]
    /\ isCapturing' = [isCapturing EXCEPT ![s] = IF variant[s] = "reload" THEN FALSE ELSE @]
    /\ Restore(s)
    /\ LET buf == capturedRequests[s]
           v == variant[s]
           cyc == HasCycle(buf)
       IN CASE v = "simple" ->
                 /\ downloads' = IF cyc \/ fail THEN downloads
                                 ELSE Append(downloads,
                                        Document(s, "primary", SIMPLE_FIELDS, Snapshot(buf)))
                 /\ returned' = IF cyc THEN returned
                                ELSE Append(returned,
                                        Artifact(s, SIMPLE_FIELDS, TRUE, Snapshot(buf)))
                 /\ exportErrors' =
                       IF cyc THEN Threw(s, <<"circular", "circular">>)
                       ELSE IF fail THEN Threw(s, <<"download">>)
                       ELSE exportErrors
            [] v = "reload" ->
                 /\ downloads' = IF cyc \/ fail THEN downloads
                                 ELSE Append(downloads,
                                        Document(s, "primary", SIMPLE_FIELDS, Snapshot(buf)))
                 /\ returned' = IF cyc \/ fail THEN returned
                                ELSE Append(returned,
                                        Artifact(s, SIMPLE_FIELDS, TRUE, Snapshot(buf)))
                 /\ exportErrors' =
                       IF cyc THEN Threw(s, <<"circular">>)
                       ELSE IF fail THEN Threw(s, <<"download">>)
                       ELSE exportErrors
            [] OTHER ->
                 /\ downloads' =
                       IF ~fail THEN Append(downloads,
                              Document(s, "primary", FULL_FIELDS, ReplacedSnapshot(buf)))
                       ELSE IF ~cyc /\ ~fail2 THEN Append(downloads,
                              Document(s, "fallback", FALLBACK_FIELDS, Snapshot(buf)))
                       ELSE downloads
                 /\ returned' = IF fail /\ (cyc \/ fail2) THEN returned
                                ELSE Append(returned,
                                        Artifact(s, FULL_FIELDS, TRUE, Snapshot(buf)))
                 /\ exportErrors' =
                       IF ~fail THEN exportErrors
                       ELSE IF cyc THEN Threw(s, <<"download", "circular">>)
                       ELSE IF fail2 THEN Threw(s, <<"download", "download">>)
                       ELSE Threw(s, <<"download">>)
    /\ UNCHANGED <<winStopCapture, closures, capturedRequests, requestCounter, objs,
                   traffic, timerArmed, stopCalls>>

\* The body of window.stopCapture as defined by nohar session s: the
\* stringify and the download are inside a try whose catch returns
\* outputData as well.
stopCapture(s, fail) ==
    /\ UNCHANGED <<page, ambient>>
    /\ Restore(s)
    /\ phase' = [phase EXCEPT ![s] = "stopped"]
    /\ downloads' = IF HasCycle(capturedRequests[s]) \/ fail THEN downloads
                    ELSE Append(downloads,
                           Document(s, "primary", SIMPLE_FIELDS,
                                    Projection(capturedRequests[s])))
    /\ returned' = Append(returned,
                      Artifact(s, SIMPLE_FIELDS, FALSE, Projection(capturedRequests[s])))
    /\ exportErrors' =
          IF HasCycle(capturedRequests[s]) THEN Threw(s, <<"circular">>)
          ELSE IF fail THEN Threw(s, <<"download">>)
          ELSE exportErrors
    /\ UNCHANGED <<winStopCapture, closures, capture, traffic>>

\* The operator types stopCapture() in the console.
CallStopCapture(fail) ==
    /\ winStopCapture # 0
    /\ stopCalls < MaxStops
    /\ Ops < MaxOps
    /\ stopCalls' = stopCalls + 1
    /\ stopCapture(winStopCapture, fail)
    /\ UNCHANGED timerArmed

\* The 10 minute timeout of nohar session s fires: `stopCapture()` resolves
\* the global of that name.
TimerFire(s, fail) ==
    /\ timerArmed[s]
    /\ timerArmed' = [timerArmed EXCEPT ![s] = FALSE]
    /\ stopCapture(winStopCapture, fail)
    /\ UNCHANGED stopCalls

\* The reload script's navigation takes effect: the page and everything the
\* scripts built in it are gone; the new page has the native entry points.
PageUnload ==
    /\ UNCHANGED <<dataUrl, ambient>>
    /\ location' = TARGET_URL
    /\ \E s \in Sessions : variant[s] = "reload" /\ phase[s] = "capturing"
    /\ winFetch' = NATIVE
    /\ xhrOpen' = NATIVE
    /\ xhrSend' = NATIVE
    /\ winStopCapture' = 0
    /\ phase' = [s \in Sessions |-> IF phase[s] = "idle" THEN "idle" ELSE "dead"]
    /\ timerArmed' = [s \in Sessions |-> FALSE]
    /\ calls' = [c \in 1..Len(calls) |->
                    IF calls[c].cur > 0
                    THEN [calls[c] EXCEPT !.cur = 0, !.flow = "gone",
                                          !.native = IF @ = "pending" THEN "gone" ELSE @]
                    ELSE calls[c]]
    /\ sends' = [k \in 1..Len(sends) |->
                    IF sends[k].native = "pending"
                    THEN [sends[k] EXCEPT !.native = "gone"] ELSE sends[k]]
    /\ xhrs' = [x \in 1..MaxXhr |->
                  [state |-> "unsent", url |-> AbsentArg, responseType |-> "",
                   prop |-> [p \in Props |-> AbsentArg], listeners |-> <<>>]]
    /\ UNCHANGED <<closures, capture, outputs, stopCalls>>

Next ==
    \/ \E s \in Sessions, v \in Variants : StartSession(s, v)
    \/ \E inp \in FetchInputs : FetchIssue(inp.arg, inp.method)
    \/ \E c \in 1..MaxCalls, r \in Responses : FetchSettle(c, TRUE, r)
    \/ \E c \in 1..MaxCalls, r \in Responses : FetchSettle(c, FALSE, r)
    \/ \E c \in 1..MaxCalls : FrameAfterOriginal(c)
    \/ \E c \in 1..MaxCalls : FrameAfterBody(c)
    \/ \E x \in 1..MaxXhr, inp \in OpenInputs : XhrOpen(x, inp.arg, inp.responseType)
    \/ \E x \in 1..MaxXhr : XhrSend(x)
    \/ \E x \in 1..MaxXhr, r \in Responses : XhrComplete(x, "load", r)
    \/ \E x \in 1..MaxXhr, r \in Responses : XhrComplete(x, "error", r)
    \/ \E s \in Sessions, fail \in BOOLEAN, fail2 \in BOOLEAN : StopTimer(s, fail, fail2)
    \/ \E fail \in BOOLEAN : CallStopCapture(fail)
    \/ \E s \in Sessions, fail \in BOOLEAN : TimerFire(s, fail)
    \/ PageUnload
    \/ Navigate

Spec == Init /\ [][Next]_vars

\* ------------------------------------------- the scan of window properties
\* The page holds some object graph in a window property.
InitSerialize ==
    /\ InitPage
    /\ \E len \in Nodes :
          \E arrays \in SUBSET (1..len), fin \in Finals(len), side \in Sides(len) :
             heap = HeapOf(len, arrays, fin, side)
    /\ result = NotRun

\* data.extracted_data[`window_${key}`] = safeSerialize(value)
Serialize ==
    /\ result = NotRun
    /\ result' = safeSerialize(Ref(1), MAX_DEPTH, 0)
    /\ UNCHANGED <<globals, closures, capture, traffic, outputs, phase, timerArmed,
                   stopCalls, page, heap>>

NextSerialize == Serialize

SpecSerialize == InitSerialize /\ [][NextSerialize]_vars

\* ---------------------------------------------------------------- claims
Range(f) == {f[i] : i \in DOMAIN f}

\* An api_calls entry that is a record object (not a replacement string).
IsRecordEntry(e) == "url" \in DOMAIN e
HasResponse(e) == e.response.t \notin {"undefined", "null"}
HasText(e) == e.text.t # "undefined"
HasError(e) == e.error.t # "undefined"
\* How many of parsed response, text preview and error an entry carries.
Carried(e) ==
    IF ~IsRecordEntry(e) THEN 0
    ELSE (IF HasResponse(e) THEN 1 ELSE 0) + (IF HasText(e) THEN 1 ELSE 0)
         + (IF HasError(e) THEN 1 ELSE 0)

\* The address a call goes to matches the substring test of script v (the
\* full script has none and is to record every call).
UrlMatches(v, arg) ==
    v = "full" \/ (arg.kind # "absent" /\ Matches(v, UrlText(arg.href)))

\* Session s holds in its buffer a record made for a call whose wrappers
\* made the records recs.
Recorded(s, recs) ==
    \E r \in Range(recs) :
        r # 0 /\ objs[r].sess = s /\ r \in Range(capturedRequests[s])

\* C1: every document a script emits and every artifact object it returns
\* carries total_captured, equal to the number of its api_calls entries.
C1_TotalCapturedIsLength ==
    /\ \A i \in DOMAIN downloads :
          /\ "total_captured" \in downloads[i].fields
          /\ downloads[i].total_captured = Len(downloads[i].api_calls)
    /\ \A i \in DOMAIN returned :
          /\ "total_captured" \in returned[i].fields
          /\ returned[i].total_captured = Len(returned[i].atReturn)

\* C2: typing stopCapture() when the session it belongs to has already
\* stopped produces no further download and reassigns no entry point.
C2_SecondStopIsNoOp ==
    [][(stopCalls' # stopCalls /\ phase[winStopCapture] = "stopped")
          => (downloads' = downloads /\ globals' = globals)]_vars

\* C3: when the session was stopped before its 10 minute timer fires, the
\* timer's expiry produces no further download and reassigns no entry point.
C3_TimerAfterStopIsNoOp ==
    [][\A s \in Sessions :
          (timerArmed[s] /\ ~timerArmed'[s] /\ phase'[s] # "dead"
             /\ phase[s] = "stopped")
          => (downloads' = downloads /\ globals' = globals)]_vars

\* C4: a call made through the wrappers of active sessions reaches the
\* native entry point exactly once and the caller gets the native outcome:
\* every settled fetch was passed to the native fetch and settled as it
\* did, and every send was passed to the native send.
C4_WrappersAreTransparent ==
    /\ \A c \in DOMAIN calls :
          (calls[c].cur = 0 /\ calls[c].flow # "gone"
             /\ Range(calls[c].chain) \subseteq calls[c].live)
          => /\ calls[c].native \in {"ok", "fail"}
             /\ calls[c].native = "ok" <=> calls[c].flow = "ok"
             /\ calls[c].native = "fail" <=> calls[c].flow = "neterr"
    /\ \A k \in DOMAIN sends :
          Range(sends[k].chain) \subseteq sends[k].live
          => sends[k].native # "notcalled"

\* C5: a call issued while session s was capturing, and which has reached
\* its end (response or transport failure) while s is still capturing, has
\* a record in s's buffer if and only if its address matches s's filter.
C5_RecordedIffMatches ==
    /\ \A c \in DOMAIN calls : \A s \in calls[c].live :
          (calls[c].cur = 0 /\ calls[c].native \in {"ok", "fail"}
             /\ calls[c].flow # "gone" /\ phase[s] = "capturing")
          => (Recorded(s, calls[c].recs) <=> UrlMatches(variant[s], calls[c].arg))
    /\ \A k \in DOMAIN sends : \A s \in sends[k].live :
          (sends[k].native \in {"load", "error"} /\ phase[s] = "capturing")
          => (Recorded(s, sends[k].recs) <=> UrlMatches(variant[s], sends[k].url))

\* C6: every api_calls entry of an exported artifact carries exactly one of
\* a parsed response, a text preview and an error.
C6_ExactlyOneOutcome ==
    /\ \A i \in DOMAIN downloads :
          \A j \in DOMAIN downloads[i].api_calls : Carried(downloads[i].api_calls[j]) = 1
    /\ \A i \in DOMAIN returned :
          \A j \in DOMAIN returned[i].atReturn : Carried(returned[i].atReturn[j]) = 1

\* C7: no record is in a buffer twice.
C7_NoRecordTwice ==
    \A s \in Sessions :
        \A i, j \in DOMAIN capturedRequests[s] :
            i # j => capturedRequests[s][i] # capturedRequests[s][j]

\* C8: once every started session has stopped, the three entry points are
\* the native functions again.
C8_OriginalsRestored ==
    ((\E s \in Sessions : phase[s] = "stopped")
       /\ (\A s \in Sessions : phase[s] # "capturing"))
    => (winFetch = NATIVE /\ xhrOpen = NATIVE /\ xhrSend = NATIVE)

\* C9: at most one session captures at a time and no entry point is wrapped
\* by two nested wrappers.
C9_SingleActiveWrap ==
    /\ Cardinality({s \in Sessions : phase[s] = "capturing"}) <= 1
    /\ Len(Chain(winFetch, originalFetch)) <= 1
    /\ Len(Chain(xhrOpen, originalXHROpen)) <= 1
    /\ Len(Chain(xhrSend, originalXHRSend)) <= 1

\* C10: an artifact object returned at stop keeps the api_calls entries it
\* had when it was returned, and they stay as many as its total_captured.
C10_ArtifactFrozenAfterStop ==
    \A i \in DOMAIN returned :
        /\ ApiCalls(returned[i]) = returned[i].atReturn
        /\ "total_captured" \in returned[i].fields
              => returned[i].total_captured = Len(ApiCalls(returned[i]))


\* C11: a record in a buffer whose call completed with a body that is not
\* JSON carries a text preview of that body (and no parsed response).
C11_NonJsonGetsPreview ==
    /\ \A c \in DOMAIN calls : \A i \in DOMAIN calls[c].recs :
          LET rec == calls[c].recs[i] IN
          (rec # 0 /\ calls[c].native = "ok" /\ ~JSONParse(calls[c].resp.body).ok
             /\ calls[c].arg.kind = "string"
             /\ UrlMatches(variant[objs[rec].sess], calls[c].arg)
             /\ rec \in Range(capturedRequests[objs[rec].sess]))
          => (HasText(objs[rec]) /\ ~HasResponse(objs[rec]))
    /\ \A s \in Sessions : \A rec \in Range(capturedRequests[s]) :
          (objs[rec].type = "xhr" /\ ~HasError(objs[rec]))
          => (HasResponse(objs[rec]) \/ HasText(objs[rec]))

\* C12: a call in the scope of a capturing session whose network call
\* failed (fetch rejected, XHR error event) has a record with the error
\* field set in that session's buffer.
C12_TransportErrorRecorded ==
    /\ \A c \in DOMAIN calls : \A s \in calls[c].live :
          (calls[c].cur = 0 /\ calls[c].native = "fail" /\ phase[s] = "capturing"
             /\ UrlMatches(variant[s], calls[c].arg))
          => \E r \in Range(calls[c].recs) :
                r # 0 /\ objs[r].sess = s /\ HasError(objs[r])
                /\ r \in Range(capturedRequests[s])
    /\ \A k \in DOMAIN sends : \A s \in sends[k].live :
          (sends[k].native = "error" /\ phase[s] = "capturing"
             /\ UrlMatches(variant[s], sends[k].url))
          => \E r \in Range(sends[k].recs) :
                r # 0 /\ objs[r].sess = s /\ HasError(objs[r])
                /\ r \in Range(capturedRequests[s])

\* C13: the capture logic raises nothing of its own: no fetch call ends
\* with the TypeError of the url test, no send wrapper throws before the
\* native send, and no completion listener ends by an exception.
C13_CaptureNeverRaises ==
    /\ \A c \in DOMAIN calls : calls[c].flow # "typeerr"
    /\ \A k \in DOMAIN sends : sends[k].native # "notcalled" /\ sends[k].raised = 0

\* C14: the body of the response a fetch wrapper hands back is never read
\* by a wrapper: every read is made on a clone.
C14_BodyReadFromClone ==
    \A c \in DOMAIN calls : ~calls[c].bodyUsed

\* C14 witness: a fetch call has returned its response to the page after a
\* wrapper read the body and stored what it read.
C14_Witness ==
    \E c \in DOMAIN calls :
        /\ calls[c].cur = 0 /\ calls[c].flow = "ok"
        /\ \E r \in Range(calls[c].recs) :
              r # 0 /\ (HasResponse(objs[r]) \/ HasText(objs[r]))

\* C15: the document emitted at stop has total_captured equal to the
\* buffer's length at that moment and, entry by entry, the urls of the
\* buffer's records.
C15_RoundTrip ==
    [][\A i \in DOMAIN downloads' :
          i \notin DOMAIN downloads =>
             LET d == downloads'[i]
                 buf == capturedRequests[d.sess]
             IN /\ d.total_captured = Len(buf)
                /\ Len(d.api_calls) = Len(buf)
                /\ \A j \in DOMAIN d.api_calls :
                      /\ IsRecordEntry(d.api_calls[j])
                      /\ d.api_calls[j].url = objs[buf[j]].url]_vars

\* The documents of kind k session s has emitted.
DocsOf(s, k) ==
    {i \in DOMAIN downloads : downloads[i].sess = s /\ downloads[i].kind = k}

\* C16: in the full script, when the export of the full document throws,
\* exactly one fallback document is emitted and it holds scrape_timestamp,
\* url, api_calls and note only; when the fallback throws too, nothing is
\* emitted, nothing is retried and the script's promise rejects.
C16_FallbackArtifact ==
    \A s \in Sessions :
        variant[s] = "full" =>
           /\ Len(exportErrors[s]) <= 2
           /\ \A i \in DocsOf(s, "fallback") :
                 downloads[i].fields = {"scrape_timestamp", "url", "api_calls", "note"}
           /\ Cardinality(DocsOf(s, "fallback"))
                 = (IF Len(exportErrors[s]) = 1 THEN 1 ELSE 0)
           /\ Len(exportErrors[s]) >= 1 => DocsOf(s, "primary") = {}
           /\ Len(exportErrors[s]) = 2 =>
                 \A i \in DOMAIN returned : returned[i].sess # s

\* C16 witness: a full session whose export threw once and which emitted
\* its fallback document.
C16_Witness ==
    \E s \in Sessions :
        /\ variant[s] = "full" /\ Len(exportErrors[s]) = 1
        /\ DocsOf(s, "fallback") # {}

\* ------------------------------------------------- claims on safeSerialize
\* The value reached from val by following d times the one property of an
\* object (or element of an array) that safeSerialize follows.
Nothing == Prim("nothing")
RECURSIVE Walk(_, _)
Walk(val, d) ==
    IF d = 0 THEN val
    ELSE IF val.k # "ref" \/ heap[val.n].slots = <<>> THEN Nothing
    ELSE LET nd == heap[val.n]
             sl == nd.slots[1]
         IN IF sl.key = "denied" \/ (sl.key = "frame" /\ ~nd.array) THEN Nothing
            ELSE IF nd.array /\ \E i \in DOMAIN nd.slots : nd.slots[i].key = "denied"
            THEN Nothing
            ELSE Walk(sl.val, d - 1)

\* The same path in the output.
RECURSIVE OutWalk(_, _)
OutWalk(out, d) ==
    IF d = 0 THEN out
    ELSE IF out.kids = <<>> THEN NotRun
    ELSE OutWalk(out.kids[1], d - 1)

RECURSIVE OutDepth(_)
OutDepth(out) ==
    IF out.kids = <<>> THEN 0
    ELSE LET ds == {OutDepth(out.kids[i]) : i \in DOMAIN out.kids}
         IN 1 + CHOOSE m \in ds : \A x \in ds : x <= m

\* C17: safeSerialize returns for every object graph, cyclic or deep; what
\* it returns is nested no deeper than maxDepth + 1, and where the graph
\* goes on past maxDepth the output holds '[Max Depth Reached]'.
C17_SafeSerializeBounded ==
    result # NotRun =>
       /\ result.k \in {"object", "array", "string"}
       /\ OutDepth(result) <= MAX_DEPTH + 1
       /\ Walk(Ref(1), MAX_DEPTH + 1) # Nothing
             => OutWalk(result, MAX_DEPTH + 1) = Text(MAX_DEPTH_REACHED)
       /\ \A d \in 0..MAX_DEPTH : OutWalk(result, d) # Text(MAX_DEPTH_REACHED)

\* C17 witness: safeSerialize has returned for a graph in which an object
\* (indirectly) contains itself, so that it goes on past maxDepth.
C17_Witness ==
    /\ result # NotRun
    /\ \E d \in 1..MaxNodes : Walk(Ref(1), d) = Ref(1)
    /\ Walk(Ref(1), MAX_DEPTH + 1) # Nothing

\* C18: the export of a session's document does not throw because the
\* exported data holds an object that refers to itself, and no emitted
\* document holds the object uncut.
C18_CycleCutAtExport ==
    /\ \A s \in Sessions :
          exportErrors[s] # <<>> => Head(exportErrors[s]) # "circular"
    /\ \A i \in DOMAIN downloads : \A j \in DOMAIN downloads[i].api_calls :
          IsRecordEntry(downloads[i].api_calls[j])
          => downloads[i].api_calls[j].method # CyclicMethod

\* C19: a document or returned artifact with no api_calls entries carries
\* total_captured, equal to 0.
C19_EmptySessionArtifact ==
    /\ \A i \in DOMAIN downloads :
          Len(downloads[i].api_calls) = 0 => downloads[i].total_captured = 0
    /\ \A i \in DOMAIN returned :
          Len(returned[i].atReturn) = 0 => returned[i].total_captured = 0

\* C20: the step by which a capturing session ends assigns the three entry
\* points the functions the session saved, whether or not its export
\* throws; when it ends because the page is unloaded, the new page has the
\* native functions.
C20_RestoreOnEveryEnd ==
    [][\A s \in Sessions :
          (phase[s] = "capturing" /\ phase'[s] # "capturing") =>
             \/ /\ phase'[s] = "stopped"
                /\ winFetch' = originalFetch[s]
                /\ xhrOpen' = originalXHROpen[s]
                /\ xhrSend' = originalXHRSend[s]
             \/ /\ phase'[s] = "dead"
                /\ winFetch' = NATIVE /\ xhrOpen' = NATIVE /\ xhrSend' = NATIVE]_vars

\* C20 witness: a session has ended with an exception raised by its export.
C20_Witness ==
    \E s \in Sessions : phase[s] = "stopped" /\ exportErrors[s] # <<>>

\* C21: once the reload script's navigation has taken effect, the wrapper
\* the script installed is still the page's fetch (or a wrapper nested
\* under it), so the calls of the reloaded page reach it.
C21_WrappersSurviveReload ==
    \A s \in Sessions :
       (variant[s] = "reload" /\ phase[s] = "dead")
       => s \in Range(Chain(winFetch, originalFetch))

\* C22: a step in which the export of a simple or stopCapture session
\* throws still returns the session's artifact to the caller.
C22_ArtifactSurvivesDownloadFailure ==
    [][\A s \in Sessions :
          (variant[s] \in {"simple", "nohar"} /\ exportErrors'[s] # exportErrors[s])
          => /\ Len(returned') = Len(returned) + 1
             /\ returned'[Len(returned')].sess = s]_vars

\* C23: the ids of the records of a stopCapture session are pairwise
\* distinct and increase in the order in which the calls were issued,
\* fetch and XHR alike, and every in-scope call has its id from the moment
\* it is issued, before the network has answered.
C23_IdsIncreaseInIssueOrder ==
    /\ \A i, j \in DOMAIN objs :
          (i < j /\ objs[i].sess = objs[j].sess /\ variant[objs[i].sess] = "nohar")
          => (1 <= objs[i].id /\ objs[i].id < objs[j].id)
    /\ \A c \in DOMAIN calls : \A i \in DOMAIN calls[c].chain :
          (variant[calls[c].chain[i]] = "nohar"
           /\ FilterEval("nohar", TRUE, calls[c].arg) = "true")
          => (calls[c].recs[i] # 0 /\ objs[calls[c].recs[i]].id >= 1)
    /\ \A k \in DOMAIN sends : \A i \in DOMAIN sends[k].chain :
          (variant[sends[k].chain[i]] = "nohar" /\ sends[k].recs[i] # 0)
          => objs[sends[k].recs[i]].id >= 1

\* C23 witness: a stopCapture session has issued a fetch call and then an
\* XHR request, both still waiting for the network, with ids 1 and 2.
C23_Witness ==
    \E s \in Sessions, c \in DOMAIN calls, k \in DOMAIN sends :
       /\ variant[s] = "nohar"
       /\ calls[c].native = "pending" /\ sends[k].native = "pending"
       /\ calls[c].chain = <<s>> /\ sends[k].chain = <<s>>
       /\ calls[c].recs[1] # 0 /\ sends[k].recs[1] # 0
       /\ objs[calls[c].recs[1]].id = 1
       /\ objs[sends[k].recs[1]].id = 2

\* The status and the parsed response in the record rec are unset or are
\* those of the response the network gave to the call.
OwnOutcome(call, rec) ==
    /\ objs[rec].url = call.arg
    /\ objs[rec].status \in {Undefined, Num(call.resp.status)}
    /\ objs[rec].response \in {Undefined, JSONParse(call.resp.body).val}
    /\ (objs[rec].status # Undefined \/ objs[rec].response # Undefined)
       => call.native = "ok"

\* C24: while a call is in flight, the record made for it holds nothing but
\* that call's own outcome, and it changes only in a step of that same call:
\* the completion of another call, of a fetch or of an XHR request, with the
\* same url and method or not, never writes into it.
C24_CompletionWritesOwnRecord ==
    /\ [](\A c \in DOMAIN calls : \A i \in DOMAIN calls[c].recs :
             calls[c].recs[i] # 0 => OwnOutcome(calls[c], calls[c].recs[i]))
    /\ [][/\ \A c \in DOMAIN calls : \A i \in DOMAIN calls[c].recs :
               (calls[c].recs[i] # 0 /\ calls[c].cur > 0
                /\ objs'[calls[c].recs[i]] # objs[calls[c].recs[i]])
               => calls'[c] # calls[c]
          /\ \A k \in DOMAIN sends : \A i \in DOMAIN sends[k].recs :
               (sends[k].recs[i] # 0 /\ sends[k].native = "pending"
                /\ objs'[sends[k].recs[i]] # objs[sends[k].recs[i]])
               => sends'[k] # sends[k]]_vars

\* C24 witness: two fetch calls with the same url and method were in flight
\* together; the second has completed first and its record holds its
\* response, the record of the first is still without a status.
C24_Witness ==
    \E c1, c2 \in DOMAIN calls :
       /\ c1 < c2
       /\ calls[c1].arg = calls[c2].arg /\ calls[c1].method = calls[c2].method
       /\ calls[c1].native = "pending" /\ calls[c1].recs[1] # 0
       /\ calls[c2].cur = 0 /\ calls[c2].native = "ok" /\ calls[c2].recs[1] # 0
       /\ objs[calls[c1].recs[1]].status = Undefined
       /\ objs[calls[c2].recs[1]].status = Num(calls[c2].resp.status)
       /\ objs[calls[c2].recs[1]].response = JSONParse(calls[c2].resp.body).val
       /\ objs[calls[c2].recs[1]].response # Undefined

\* C25: no step changes a field of a record that is already in a buffer.
C25_AppendedRecordFrozen ==
    [][\A s \in Sessions : \A id \in Range(capturedRequests[s]) :
          objs'[id] = objs[id]]_vars

\* The records the step completes: those of a fetch call one of whose
\* wrappers returns, and those whose listener runs for the event an XHR
\* request ends with.
CompletedNow ==
    {calls[c].recs[calls[c].cur] :
        c \in {d \in DOMAIN calls : calls[d].cur > 0 /\ calls'[d].cur < calls[d].cur}}
    \cup UNION {{xhrs[sends[k].x].listeners[j].rec :
                    j \in {l \in DOMAIN xhrs[sends[k].x].listeners :
                             xhrs[sends[k].x].listeners[l].ev = sends'[k].native}} :
                k \in {l \in DOMAIN sends : sends[l].native = "pending"
                                              /\ sends'[l].native \in {"load", "error"}}}

\* C26: a buffer only grows at its end, by records completed in that step:
\* what it held before stays as its prefix, in the same order.
C26_BufferAppendOnly ==
    [][\A s \in Sessions :
          LET old == capturedRequests[s]
              new == capturedRequests'[s]
          IN /\ Len(old) <= Len(new)
             /\ SubSeq(new, 1, Len(old)) = old
             /\ \A i \in (Len(old) + 1)..Len(new) : new[i] \in CompletedNow]_vars

\* C26 witness: a buffer holds two records in the order in which their
\* calls completed, the reverse of the order in which they were issued.
C26_Witness ==
    \E s \in Sessions :
       /\ Len(capturedRequests[s]) = 2
       /\ capturedRequests[s][1] > capturedRequests[s][2]
       /\ objs[capturedRequests[s][1]].id > objs[capturedRequests[s][2]].id

\* C30: the timestamp of every record is the time at which its call was
\* issued, for fetch calls and XHR requests, in every script.
C30_TimestampAtIssuance ==
    /\ \A c \in DOMAIN calls : \A i \in DOMAIN calls[c].recs :
          calls[c].recs[i] # 0 => objs[calls[c].recs[i]].timestamp = calls[c].issuedAt
    /\ \A k \in DOMAIN sends : \A i \in DOMAIN sends[k].recs :
          sends[k].recs[i] # 0 => objs[sends[k].recs[i]].timestamp = sends[k].issuedAt

\* C27: in every object safeSerialize reaches, a key whose read throws is
\* mapped to '[Access Denied]' and every other key is still there: a skipped
\* key is left out, a readable string is kept (or cut at the depth bound),
\* and the object and the containers above it stay objects and arrays.
C27_FailingKeyIsolated ==
    result # NotRun =>
       \A d \in 0..MAX_DEPTH :
          LET v == Walk(Ref(1), d) IN
          (v.k = "ref" /\ ~heap[v.n].array) =>
             LET o == OutWalk(result, d)
                 sl == heap[v.n].slots
             IN /\ o.k = "object"
                /\ \A e \in 0..d : OutWalk(result, e).k \in {"object", "array"}
                /\ Len(o.kids) = Len(sl)
                /\ \A i \in DOMAIN sl :
                      /\ sl[i].key = "denied" => o.kids[i] = Text("[Access Denied]")
                      /\ sl[i].key = "frame" => o.kids[i] = Absent
                      /\ (sl[i].key = "plain" /\ sl[i].val.k = "string") =>
                            o.kids[i] = (IF d < MAX_DEPTH THEN Text("a string")
                                         ELSE Text(MAX_DEPTH_REACHED))
                      /\ (sl[i].key = "plain" /\ sl[i].val.k = "ref" /\ d < MAX_DEPTH) =>
                            o.kids[i].k \in {"object", "array", "string"}

\* C27 witness: safeSerialize has returned for an object whose first key
\* throws when read and whose second key holds a string.
C27_Witness ==
    /\ result # NotRun
    /\ ~heap[1].array
    /\ Len(heap[1].slots) = 2
    /\ heap[1].slots[1].key = "denied"
    /\ heap[1].slots[2] = Plain(Prim("string"))
    /\ result.kids = <<Text("[Access Denied]"), Text("a string")>>

\* The output out of the value val found at depth depth is the sentinel
\* when depth is past the bound, is not the sentinel otherwise, and the
\* same holds below it.
RECURSIVE DepthRespected(_, _, _)
DepthRespected(val, out, depth) ==
    IF depth > MAX_DEPTH THEN out = Text(MAX_DEPTH_REACHED)
    ELSE /\ out # Text(MAX_DEPTH_REACHED)
         /\ (val.k = "ref" /\ out.kids # <<>>) =>
               \A i \in DOMAIN out.kids :
                  (heap[val.n].array \/ heap[val.n].slots[i].key = "plain")
                  => DepthRespected(heap[val.n].slots[i].val, out.kids[i], depth + 1)

\* C28: with the default maximum depth 3, a value more than 3 container
\* levels below the root is replaced by '[Max Depth Reached]' and nothing
\* below it is visited; a value at depth 3 or less is never replaced by it.
C28_DepthBound ==
    result # NotRun =>
       /\ DepthRespected(Ref(1), result, 0)
       /\ OutDepth(result) <= MAX_DEPTH + 1

\* C28 witness: safeSerialize has returned for a chain of five distinct
\* objects: the fourth is kept, the fifth is replaced by the sentinel.
C28_Witness ==
    /\ result # NotRun
    /\ Walk(Ref(1), MAX_DEPTH + 1) = Ref(MAX_DEPTH + 2)
    /\ OutWalk(result, MAX_DEPTH).k \in {"object", "array"}
    /\ OutWalk(result, MAX_DEPTH + 1) = Text(MAX_DEPTH_REACHED)

\* val is built from strings, numbers, booleans, null, arrays and objects
\* only, uses no skipped or throwing key, and is nested no deeper than the
\* bound (so it has no cycle).
RECURSIVE IsPlainData(_, _)
IsPlainData(val, depth) ==
    /\ depth <= MAX_DEPTH
    /\ \/ val.k \in {"string", "number", "boolean", "null"}
       \/ /\ val.k = "ref"
          /\ \A i \in DOMAIN heap[val.n].slots :
                /\ heap[val.n].slots[i].key = "plain"
                /\ IsPlainData(heap[val.n].slots[i].val, depth + 1)

\* The value val itself, written as an output value.
RECURSIVE Mirror(_)
Mirror(val) ==
    CASE val.k = "string" -> Out("string", "a string", <<>>)
      [] val.k = "number" -> Out("number", "1", <<>>)
      [] val.k = "boolean" -> Out("boolean", "true", <<>>)
      [] val.k = "null" -> Out("null", "", <<>>)
      [] OTHER ->
           Out(IF heap[val.n].array THEN "array" ELSE "object", "",
               [i \in DOMAIN heap[val.n].slots |-> Mirror(heap[val.n].slots[i].val)])

\* C29: for plain acyclic data within the depth bound safeSerialize returns
\* a value equal in structure to its input.
C29_PlainDataUnchanged ==
    (result # NotRun /\ IsPlainData(Ref(1), 0)) => result = Mirror(Ref(1))

\* C29 witness: safeSerialize has returned for a plain array of two
\* elements, the first a container.
C29_Witness ==
    /\ result # NotRun
    /\ IsPlainData(Ref(1), 0)
    /\ heap[1].array
    /\ Len(heap[1].slots) = 2
    /\ heap[1].slots[1].val.k = "ref"
    /\ result = Mirror(Ref(1))

\* The character budget of the text previews of script v.
Budget(v) ==
    CASE v = "full" -> PREVIEW_FULL
      [] v = "nohar" -> PREVIEW_NOHAR
      [] OTHER -> PREVIEW_SIMPLE

\* text is the first min(length, budget) characters of body.
IsPreviewOf(text, body, v) ==
    /\ text.t = "string"
    /\ text.v = body.v
    /\ text.n = Min(body.n, Budget(v))
    /\ text.n <= Budget(v)
    /\ body.n < Budget(v) => text = body

\* C31: a text preview stored in a record is the prefix, cut at the budget
\* of the record's script, of a response body; the step that stores it
\* takes it from the response whose status it writes into the record, and
\* the preview of a fetch record is a prefix of the body the network gave
\* to that call.
C31_PreviewIsPrefix ==
    /\ [](/\ \A id \in DOMAIN objs :
               objs[id].text # Undefined =>
                  \E r \in Responses :
                     IsPreviewOf(objs[id].text, r.body, variant[objs[id].sess])
           /\ \A c \in DOMAIN calls : \A i \in DOMAIN calls[c].recs :
                 (calls[c].recs[i] # 0 /\ objs[calls[c].recs[i]].text # Undefined)
                 => IsPreviewOf(objs[calls[c].recs[i]].text, calls[c].resp.body,
                                variant[calls[c].chain[i]]))
    /\ [][\A id \in DOMAIN objs :
             objs'[id].text # objs[id].text =>
                \E r \in Responses :
                   /\ objs'[id].status = Num(r.status)
                   /\ IsPreviewOf(objs'[id].text, r.body, variant[objs[id].sess])]_vars

\* C31 witness: one session holds a preview cut at its budget and another
\* holds a text shorter than its budget, stored whole.
C31_Witness ==
    \E a, b \in DOMAIN objs :
       /\ objs[a].text # Undefined /\ objs[b].text # Undefined
       /\ objs[a].text.n = Budget(variant[objs[a].sess])
       /\ objs[a].text.n < BodyText.n
       /\ objs[b].text = BodyText

\* C32: every document a step hands to the browser, and every artifact it
\* returns, carries in url the address the page has in that step.
C32_UrlIsAddressAtExport ==
    [][/\ \A i \in (DOMAIN downloads') \ (DOMAIN downloads) :
             downloads'[i].url = location
       /\ \A i \in (DOMAIN returned') \ (DOMAIN returned) :
             returned'[i].url = location]_vars

\* C33: when a wrapper of a successful fetch call has returned the response
\* to its caller, the record that wrapper made for the call, if the call is
\* in the wrapper's scope, is in the buffer of the wrapper's session.
C33_RecordedBeforeResolve ==
    \A c \in DOMAIN calls :
       calls[c].flow = "ok" =>
          \A i \in (calls[c].cur + 1)..Len(calls[c].chain) :
             LET s == calls[c].chain[i] IN
             (UrlMatches(variant[s], calls[c].arg)
              /\ (variant[s] = "reload" => phase[s] = "capturing"))
             => /\ calls[c].recs[i] # 0
                /\ calls[c].recs[i] \in Range(capturedRequests[s])

\* C33 witness: the only wrapper of an in-scope fetch call has returned the
\* response, and the call's record, with its status, is in the buffer.
C33_Witness ==
    \E c \in DOMAIN calls :
       /\ calls[c].flow = "ok" /\ calls[c].cur = 0
       /\ Len(calls[c].chain) = 1
       /\ variant[calls[c].chain[1]] # "full"
       /\ UrlMatches(variant[calls[c].chain[1]], calls[c].arg)
       /\ calls[c].recs[1] \in Range(capturedRequests[calls[c].chain[1]])
       /\ objs[calls[c].recs[1]].status = Num(calls[c].resp.status)

\* The buffer of the session of document d as it was when d was written
\* (a buffer only grows at its end).
BufferOf(d) == SubSeq(capturedRequests[d.sess], 1, Len(d.api_calls))

\* C34: in the document the full script writes with its replacer every
\* object appears once: a record that is in the buffer a second time is
\* written as '[Circular Reference]', on a cycle or not, the first
\* occurrence is written as a record, and the page's object m is written
\* out under one record only, as '[Circular Reference]' under the others.
C34_EachObjectOnce ==
    \A n \in DOMAIN downloads :
       LET d == downloads[n]
           buf == BufferOf(d)
       IN (variant[d.sess] = "full" /\ d.kind = "primary") =>
          /\ Len(d.api_calls) <= Len(capturedRequests[d.sess])
          /\ \A j \in DOMAIN d.api_calls :
                IF \E i \in 1..(j - 1) : buf[i] = buf[j]
                THEN d.api_calls[j] = CIRCULAR
                ELSE /\ IsRecordEntry(d.api_calls[j])
                     /\ d.api_calls[j].url \in {objs[buf[j]].url, UNDEFINED_TEXT}
          /\ \A i, j \in DOMAIN d.api_calls :
                (i < j /\ IsRecordEntry(d.api_calls[i]) /\ IsRecordEntry(d.api_calls[j]))
                => /\ buf[i] # buf[j]
                   /\ d.api_calls[j].method # CyclicMethod
                   /\ d.api_calls[i].method = CutMethod
                      => d.api_calls[j].method # CutMethod
                   /\ (objs[buf[i]].method = CyclicMethod
                       /\ objs[buf[j]].method = CyclicMethod)
                      => d.api_calls[j].method = CIRCULAR

\* C34 witness: the full script has written a document whose buffer held
\* the same record twice, a record that is on no cycle: the first
\* occurrence is written as a record, the second as the string.
C34_Witness ==
    \E n \in DOMAIN downloads :
       /\ variant[downloads[n].sess] = "full" /\ downloads[n].kind = "primary"
       /\ Len(downloads[n].api_calls) >= 2
       /\ BufferOf(downloads[n])[1] = BufferOf(downloads[n])[2]
       /\ IsRecordEntry(downloads[n].api_calls[1])
       /\ downloads[n].api_calls[1].method = GET
       /\ downloads[n].api_calls[2] = CIRCULAR

C36_ProjectionKeepsResponse ==
    [][\A n \in (DOMAIN returned') \ (DOMAIN returned) :
          LET a == returned'[n]
              buf == capturedRequests[a.sess]
          IN variant[a.sess] = "nohar" =>
             /\ Len(a.atReturn) = Len(buf)
             /\ \A j \in DOMAIN buf :
                   a.atReturn[j].response =
                      (IF objs[buf[j]].response # Undefined THEN objs[buf[j]].response
                       ELSE IF objs[buf[j]].text # Undefined THEN objs[buf[j]].text
                       ELSE Null)]_vars

====
